---- MODULE Spec2Model ----
(***************************************************************************)
(* A model of the JEFF 4.0 library generator: the orchestrator main() of   *)
(* generate_jeff.py and the helpers download(), extract(),                 *)
(* process_neutron() and process_thermal() of utils.py.                    *)
(*                                                                         *)
(* File names are sequences of one-character strings, so that the prefix   *)
(* test, the GNDS parse behind openmc.data.zam and the ordering of paths   *)
(* are computed and not looked up.  File contents are sequences of bytes.  *)
(***************************************************************************)
EXTENDS Integers, Sequences, FiniteSets, TLC

(***************************************************************************)
(* Bounds of the model.                                                    *)
(***************************************************************************)
\* longest directory listing handed to sorted() in SpecSortKey
MaxListing == 3
\* longest file content, in bytes
MaxLen == 2
\* number of evaluations in an archive of the release (and of matched pairs)
MaxEval == 2
\* number of worker processes of the pool (Pool() takes the CPU count)
PoolSize == 2
\* number of calls of download() / extract() followed in their own specifications
MaxCalls == 3

(***************************************************************************)
(* Characters and names.                                                   *)
(***************************************************************************)
\* the characters of the names, in ASCII order (str and Path compare by code point)
Alphabet ==
    << "-", ".", "0", "1", "2", "3", "4", "5", "6", "7", "8", "9",
       "D", "H", "O", "U", "_", "c", "e", "g", "h", "i", "m", "n" >>

CharRank(ch) == CHOOSE i \in 1..Len(Alphabet) : Alphabet[i] = ch

DigitChars == << "0", "1", "2", "3", "4", "5", "6", "7", "8", "9" >>

Digits == {DigitChars[i] : i \in 1..Len(DigitChars)}

\* int() of one decimal digit
DigitVal(ch) == (CHOOSE i \in 1..Len(DigitChars) : DigitChars[i] = ch) - 1

\* int() of a run of decimal digits
RECURSIVE DecVal(_)
DecVal(ds) ==
    IF ds = << >> THEN 0
    ELSE 10 * DecVal(SubSeq(ds, 1, Len(ds) - 1)) + DigitVal(ds[Len(ds)])

\* [A-Zn] and [a-z] of the GNDS name pattern, over the alphabet above
UpperOrN == {"D", "H", "O", "U", "n"}

Lower == {"c", "e", "g", "h", "i", "m", "n"}

\* str < str of Python: lexicographic by code point, a proper prefix is smaller
RECURSIVE StrLess(_, _)
StrLess(s, t) ==
    IF t = << >> THEN FALSE
    ELSE IF s = << >> THEN TRUE
    ELSE IF Head(s) # Head(t) THEN CharRank(Head(s)) < CharRank(Head(t))
    ELSE StrLess(Tail(s), Tail(t))

\* str.startswith
StartsWith(s, prefix) ==
    /\ Len(s) >= Len(prefix)
    /\ SubSeq(s, 1, Len(prefix)) = prefix

\* Path.stem: the name without its last suffix
Stem(name) ==
    LET dots == {i \in 2..Len(name) : name[i] = "."}
    IN  IF dots = {} THEN name
        ELSE SubSeq(name, 1, (CHOOSE i \in dots : \A j \in dots : j <= i) - 1)

\* Path.suffix: the last dot-separated part, dot included
Suffix(name) ==
    LET dots == {i \in 2..Len(name) : name[i] = "."}
    IN  IF dots = {} THEN << >>
        ELSE SubSeq(name, CHOOSE i \in dots : \A j \in dots : j <= i, Len(name))

(***************************************************************************)
(* The ordering key of main(): sort_key, and the zam() it calls.           *)
(***************************************************************************)
\* the result of a call that raised ValueError: the empty tuple, which no key is
ValueError == << >>

Raised(v) == Len(v) = 0

\* openmc.data.ATOMIC_NUMBER, for the symbols the alphabet can spell
AtomicNumber(sym) ==
    CASE sym = << "n" >> -> 0
      [] sym = << "H" >> -> 1
      [] sym = << "H", "e" >> -> 2
      [] sym = << "O" >> -> 8
      [] sym = << "U" >> -> 92
      [] OTHER -> -1

\* the longest run of characters of `set` in s that starts at position i
RunEnd(s, i, set) ==
    LET stops == {j \in i..Len(s) : s[j] \notin set}
    IN  IF stops = {} THEN Len(s)
        ELSE (CHOOSE j \in stops : \A k \in stops : j <= k) - 1

\* openmc.data.zam: fullmatch of ([A-Zn][a-z]*)(\d+)((?:_[em]\d+)?), then the
\* atomic number of the symbol; (Z, A, m), or ValueError
zam(name) ==
    IF name = << >> THEN ValueError
    ELSE IF name[1] \notin UpperOrN THEN ValueError
    ELSE
      LET symEnd == RunEnd(name, 2, Lower)
          aEnd   == RunEnd(name, symEnd + 1, Digits)
          symbol == SubSeq(name, 1, symEnd)
          A      == SubSeq(name, symEnd + 1, aEnd)
          state  == SubSeq(name, aEnd + 1, Len(name))
          stateOk ==
              \/ Len(state) = 0
              \/ /\ Len(state) >= 3
                 /\ state[1] = "_"
                 /\ state[2] \in {"e", "m"}
                 /\ \A j \in 3..Len(state) : state[j] \in Digits
      IN  IF Len(A) = 0 \/ ~stateOk THEN ValueError
          ELSE IF AtomicNumber(symbol) < 0 THEN ValueError
          ELSE << AtomicNumber(symbol), DecVal(A),
                  IF Len(state) = 0 THEN 0
                  ELSE DecVal(SubSeq(state, 3, Len(state))) >>

\* sort_key with the sentinel of the c_ names below every atomic number
sort_key_sentinel_first(name) ==
    IF StartsWith(name, << "c", "_" >>) THEN << 0, name >>
    ELSE zam(Stem(name))

\* sort_key(path): the paths of one listing share their directory, so the
\* path of the key is the file name
sort_key(name) ==
    IF StartsWith(name, << "c", "_" >>) THEN << 1000, name >>
    ELSE zam(Stem(name))

\* tuple < tuple of Python on the keys: the first differing component decides
\* (no atomic number is 1000, so a name is never compared with a mass number)
KeyLess(k1, k2) ==
    IF k1[1] # k2[1] THEN k1[1] < k2[1]
    ELSE IF Len(k1) = 2 /\ Len(k2) = 2 THEN StrLess(k1[2], k2[2])
    ELSE IF Len(k1) = 3 /\ Len(k2) = 3
         THEN \/ k1[2] < k2[2]
              \/ k1[2] = k2[2] /\ k1[3] < k2[3]
    ELSE FALSE

\* a step that puts x in front whatever its key is
InsertByKey_front(x, sorted) == << x >> \o sorted

\* one step of a stable sort: x goes behind every element whose key is not larger
RECURSIVE InsertByKey(_, _)
InsertByKey(x, sorted) ==
    IF Len(sorted) = 0 THEN << x >>
    ELSE IF KeyLess(sort_key(x), sort_key(Head(sorted)))
         THEN << x >> \o sorted
    ELSE << Head(sorted) >> \o InsertByKey(x, Tail(sorted))

RECURSIVE StableSort(_)
StableSort(listing) ==
    IF Len(listing) = 0 THEN << >>
    ELSE InsertByKey(listing[Len(listing)],
                     StableSort(SubSeq(listing, 1, Len(listing) - 1)))

\* the listing handed on in the order glob gave it
Sorted_as_listed(listing) == [raised |-> FALSE, list |-> listing]

\* sorted(listing, key=sort_key): every key is computed first, and a key that
\* raises ends the call with no result
Sorted(listing) ==
    IF \E i \in 1..Len(listing) : Raised(sort_key(listing[i]))
    THEN [raised |-> TRUE, list |-> << >>]
    ELSE [raised |-> FALSE, list |-> StableSort(listing)]

\* the sequences without repetition over a set, up to a length: what glob() can
\* yield for a directory, in the order the file system happens to give
Listings(names, maxLen) ==
    {l \in UNION {[1..k -> names] : k \in 0..maxLen} :
        \A i, j \in 1..Len(l) : i # j => l[i] # l[j]}

(***************************************************************************)
(* Names of files.                                                         *)
(***************************************************************************)
\* f'{data.name}.h5'
H5Name(stem) == stem \o << ".", "h", "5" >>

\* IncidentNeutron names (gnds_name of the evaluation)
NameH1 == << "H", "1" >>
NameH2 == << "H", "2" >>
NameU238 == << "U", "2", "3", "8" >>
NameU235m1 == << "U", "2", "3", "5", "_", "m", "1" >>
\* ThermalScattering names
NameHinH2O == << "c", "_", "H", "_", "i", "n", "_", "H", "2", "O" >>
NameDinD2O == << "c", "_", "D", "_", "i", "n", "_", "D", "2", "O" >>
\* IncidentPhoton names (the element)
NameH == << "H" >>
NameHe == << "H", "e" >>
\* the stem of an evaluation of the release, n_1-H-001g.jeff
NameEvalH1 == << "n", "_", "1", "-", "H", "-", "0", "0", "1", "g" >>


(***************************************************************************)
(* Files and their contents.                                               *)
(***************************************************************************)
Bytes == {0, 1}

\* the byte strings of at most n bytes
Contents(n) == UNION {[1..k -> Bytes] : k \in 0..n}

\* a path that names no file
Absent == [exists |-> FALSE, bytes |-> << >>]

FileOf(bytes) == [exists |-> TRUE, bytes |-> bytes]

Files(n) == {Absent} \cup {FileOf(c) : c \in Contents(n)}

\* hashlib.md5(...).hexdigest(), idealised as a digest without collisions
RECURSIVE Md5(_)
Md5(bytes) ==
    IF Len(bytes) = 0 THEN 1
    ELSE 2 * Md5(SubSeq(bytes, 1, Len(bytes) - 1)) + bytes[Len(bytes)]

\* checksum=None
NoChecksum == 0

\* what zipfile.ZipFile / tarfile.open accept: the first byte is the container's
\* magic number, each later byte tells whether the member of that index is there
ArchiveOk(bytes) == Len(bytes) >= 1 /\ bytes[1] = 1

Members(bytes) == {i \in 1..(Len(bytes) - 1) : bytes[i + 1] = 1}

(***************************************************************************)
(* download(url, checksum, output_path) of utils.py, as a function of the  *)
(* file at local_path, the body the server sends and the checksum.         *)
(***************************************************************************)
\* download() without the test for a file that is already there
download_always(local, served, checksum) ==
    LET raised == checksum # NoChecksum /\ Md5(served) # checksum
    IN  [local |-> FileOf(served), read |-> Len(served), skipped |-> FALSE,
         result |-> IF raised THEN "OSError" ELSE "returned"]

download(local, served, checksum) ==
    LET file_size == Len(served)
    IN  IF local.exists /\ Len(local.bytes) = file_size
        THEN \* 'Skipping ..., already downloaded': returns inside the with block
             [local |-> local, read |-> 0, skipped |-> TRUE, result |-> "returned"]
        ELSE \* the body is copied to local_path, then the digest is compared
             LET written == FileOf(served)
                 raised  == checksum # NoChecksum /\ Md5(written.bytes) # checksum
             IN  [local |-> written, read |-> Len(served), skipped |-> FALSE,
                  result |-> IF raised THEN "OSError" ELSE "returned"]

(***************************************************************************)
(* extract(compressed_file, extraction_dir, del_compressed_file).          *)
(***************************************************************************)
ZipSuffix == << ".", "z", "i", "p" >>

TarSuffixes ==
    { << ".", "g", "z" >>, << ".", "b", "z", "2" >>, << ".", "x", "z" >>,
      << ".", "l", "z", "m", "a" >>, << ".", "z", "s", "t" >>,
      << ".", "t", "g", "z" >>, << ".", "t", "a", "r" >> }

\* extract() that unpacks before it looks at the suffix
extract_any_suffix(name, archive, dir, del_compressed_file) ==
    IF ~archive.exists
    THEN [dir |-> [exists |-> TRUE, files |-> dir.files], archive |-> archive,
          result |-> "FileNotFoundError"]
    ELSE [dir |-> [exists |-> TRUE, files |-> dir.files \cup Members(archive.bytes)],
          archive |-> IF del_compressed_file THEN Absent ELSE archive,
          result |-> "returned"]

\* dir is the extraction directory: whether it exists and the members in it
extract(name, archive, dir, del_compressed_file) ==
    LET made == [exists |-> TRUE, files |-> dir.files]
        suffix == Suffix(name)
    IN  IF suffix = ZipSuffix \/ suffix \in TarSuffixes
        THEN IF ~archive.exists
             THEN [dir |-> made, archive |-> archive, result |-> "FileNotFoundError"]
             ELSE IF ~ArchiveOk(archive.bytes)
             THEN [dir |-> made, archive |-> archive, result |-> "BadArchive"]
             ELSE [dir |-> [exists |-> TRUE,
                            files |-> dir.files \cup Members(archive.bytes)],
                   archive |-> IF del_compressed_file THEN Absent ELSE archive,
                   result |-> "returned"]
        ELSE [dir |-> made, archive |-> archive, result |-> "ValueError"]

(***************************************************************************)
(* State.                                                                  *)
(***************************************************************************)
VARIABLES
    \* main(): the run of the orchestrator
    args,        \* the parsed command line
    relSize,     \* evaluations per archive of the release, and matched pairs
    pc,          \* the place of main() in its text
    todo,        \* what the loop main() is in has still to visit
    cache,       \* download_path: the archive files in it, by particle and name
    cacheDir,    \* whether download_path exists
    endf,        \* endf_files_dir: the extracted evaluations, by particle
    dest,        \* args.destination: the .h5 files in it, by particle
    destDirs,    \* the particle directories of args.destination that exist
    library,     \* openmc.data.DataLibrary: the registered paths, in order
    xml,         \* cross_sections.xml: whether written, and the paths it lists
    jobs,        \* the jobs of the pool of the stage, in submission order
    waited,      \* how many results of the stage r.wait() has returned for
    failedIn,    \* the stage in which a job of the pool first raised, or "none"
    ran,         \* the stages entered so far, in order
    fetched,     \* the manifest entries download() was called for, each with
                 \* the local path it wrote
    opened,      \* the manifest entries extract() was called for, each with
                 \* the path it opened
    \* download(), called again and again for one url
    dlLocal, dlServed, dlChecksum, dlResult, dlRead, dlCalls,
    \* extract(), called again and again for one archive
    exName, exArchive, exDir, exDel, exResult, exCalls,
    \* sorted(listing, key=sort_key)
    skListing, skSorted, skCalled,
    \* fix_missing_tpid(path), entered again and again for one evaluation
    tpSource, tpTemp, tpPath, tpPc, tpResult, tpCalls

pipeVars ==
    << args, relSize, pc, todo, cache, cacheDir, endf, dest, destDirs, library,
       xml, jobs, waited, failedIn, ran, fetched, opened >>

dlVars == << dlLocal, dlServed, dlChecksum, dlResult, dlRead, dlCalls >>

exVars == << exName, exArchive, exDir, exDel, exResult, exCalls >>

skVars == << skListing, skSorted, skCalled >>

tpVars == << tpSource, tpTemp, tpPath, tpPc, tpResult, tpCalls >>

vars == << pipeVars, dlVars, exVars, skVars, tpVars >>

\* the parts of the state a specification does not use stay as they are here
PipeIdle ==
    /\ args = [download |-> FALSE, extract |-> FALSE, cleanup |-> FALSE,
               particles |-> {}]
    /\ relSize = 0
    /\ pc = "idle"
    /\ todo = << >>
    /\ cache = << >>
    /\ cacheDir = FALSE
    /\ endf = << >>
    /\ dest = << >>
    /\ destDirs = {}
    /\ library = << >>
    /\ xml = [written |-> FALSE, paths |-> << >>]
    /\ jobs = << >>
    /\ waited = 0
    /\ failedIn = "none"
    /\ ran = << >>
    /\ fetched = {}
    /\ opened = {}

DlIdle ==
    /\ dlLocal = Absent
    /\ dlServed = << >>
    /\ dlChecksum = NoChecksum
    /\ dlResult = "none"
    /\ dlRead = 0
    /\ dlCalls = 0

ExIdle ==
    /\ exName = << >>
    /\ exArchive = Absent
    /\ exDir = [exists |-> FALSE, files |-> {}]
    /\ exDel = FALSE
    /\ exResult = "none"
    /\ exCalls = 0

SkIdle ==
    /\ skListing = << >>
    /\ skSorted = [raised |-> FALSE, list |-> << >>]
    /\ skCalled = FALSE

TpIdle ==
    /\ tpSource = Absent
    /\ tpTemp = << >>
    /\ tpPath = 0
    /\ tpPc = "idle"
    /\ tpResult = "none"
    /\ tpCalls = 0

(***************************************************************************)
(* SpecDownload: download() called repeatedly with one url and checksum.   *)
(***************************************************************************)
Checksums == {NoChecksum} \cup {Md5(c) : c \in Contents(MaxLen)}

InitDownload ==
    /\ dlLocal \in Files(MaxLen)
    /\ dlServed \in Contents(MaxLen)
    /\ dlChecksum \in Checksums
    /\ dlResult = "none"
    /\ dlRead = 0
    /\ dlCalls = 0
    /\ PipeIdle /\ ExIdle /\ SkIdle /\ TpIdle

\* one call download(url, checksum=dlChecksum, output_path=...)
DownloadCall ==
    /\ dlCalls < MaxCalls
    /\ LET r == download(dlLocal, dlServed, dlChecksum)
       IN  /\ dlLocal' = r.local
           /\ dlResult' = r.result
           /\ dlRead' = dlRead + r.read
    /\ dlCalls' = dlCalls + 1
    /\ UNCHANGED << dlServed, dlChecksum, pipeVars, exVars, skVars, tpVars >>

\* between two calls the server may come to send another body for the url
ServerChanges ==
    /\ dlCalls < MaxCalls
    /\ \E c \in Contents(MaxLen) : c # dlServed /\ dlServed' = c
    /\ UNCHANGED << dlLocal, dlChecksum, dlResult, dlRead, dlCalls,
                    pipeVars, exVars, skVars, tpVars >>

NextDownload == DownloadCall \/ ServerChanges

SpecDownload == InitDownload /\ [][NextDownload]_vars

(***************************************************************************)
(* SpecExtract: extract() called repeatedly on one archive.                *)
(***************************************************************************)
ArchiveZip == << "a", ".", "z", "i", "p" >>
ArchiveTarGz == << "a", ".", "t", "a", "r", ".", "g", "z" >>
ArchiveTgz == << "a", ".", "t", "g", "z" >>
ArchiveRar == << "a", ".", "r", "a", "r" >>
ArchivePlain == << "a" >>

ArchiveNames == {ArchiveZip, ArchiveTarGz, ArchiveTgz, ArchiveRar, ArchivePlain}

InitExtract ==
    /\ exName \in ArchiveNames
    /\ exArchive \in Files(MaxLen)
    /\ exDir \in [exists : BOOLEAN, files : SUBSET (1..(MaxLen - 1))]
    /\ exDir.files # {} => exDir.exists
    /\ exDel \in BOOLEAN
    /\ exResult = "none"
    /\ exCalls = 0
    /\ PipeIdle /\ DlIdle /\ SkIdle /\ TpIdle

\* one call extract(exName, extraction_dir, del_compressed_file=exDel)
ExtractCall ==
    /\ exCalls < MaxCalls
    /\ LET r == extract(exName, exArchive, exDir, exDel)
       IN  /\ exDir' = r.dir
           /\ exArchive' = r.archive
           /\ exResult' = r.result
    /\ exCalls' = exCalls + 1
    /\ UNCHANGED << exName, exDel, pipeVars, dlVars, skVars, tpVars >>

NextExtract == ExtractCall

SpecExtract == InitExtract /\ [][NextExtract]_vars

(***************************************************************************)
(* SpecSortKey: sorted(listing, key=sort_key) on the listings of a         *)
(* directory.                                                              *)
(***************************************************************************)
SortNames ==
    { H5Name(NameH1), H5Name(NameH2), H5Name(NameU238), H5Name(NameU235m1),
      H5Name(NameHinH2O), H5Name(NameDinD2O), H5Name(NameH), NameEvalH1 }

InitSortKey ==
    /\ skListing \in Listings(SortNames, MaxListing)
    /\ skSorted = [raised |-> FALSE, list |-> << >>]
    /\ skCalled = FALSE
    /\ PipeIdle /\ DlIdle /\ ExIdle /\ TpIdle

\* sorted(skListing, key=sort_key)
SortListing ==
    /\ ~skCalled
    /\ skSorted' = Sorted(skListing)
    /\ skCalled' = TRUE
    /\ UNCHANGED << skListing, pipeVars, dlVars, exVars, tpVars >>

NextSortKey == SortListing

SpecSortKey == InitSortKey /\ [][NextSortKey]_vars

(***************************************************************************)
(* SpecTpid: the scope of fix_missing_tpid(path) entered and left          *)
(* repeatedly for one evaluation, which may come and go between the calls. *)
(***************************************************************************)
\* the TPID line written in front of the evaluation, cut to its fields "1 0"
TpidLine == << 1, 0 >>

\* the names NamedTemporaryFile can give to a file
TempNames == 1..MaxCalls

\* the part of fix_missing_tpid before the yield: the temporary file is made
\* under a name not in use and kept when closed (delete=False), the line is
\* written, then the evaluation read and written behind it; a read that fails
\* raises inside the with block, which closes the file and leaves it on disk
tpid_enter(source, temps, name) ==
    IF source.exists
    THEN [temps |-> [temps EXCEPT ![name] = FileOf(TpidLine \o source.bytes)],
          result |-> "yielded"]
    ELSE [temps |-> [temps EXCEPT ![name] = FileOf(TpidLine)],
          result |-> "FileNotFoundError"]

\* the finally clause: temp_path.unlink()
tpid_exit(temps, name) == [temps EXCEPT ![name] = Absent]

InitTpid ==
    /\ tpSource \in Files(MaxLen)
    /\ tpTemp = [name \in TempNames |-> Absent]
    /\ tpPath = 0
    /\ tpPc = "idle"
    /\ tpResult = "none"
    /\ tpCalls = 0
    /\ PipeIdle /\ DlIdle /\ ExIdle /\ SkIdle

\* with fix_missing_tpid(path) as new_path: the scope is entered, or the call
\* raises before it yields
TpidEnter ==
    /\ tpPc \in {"idle", "left"}
    /\ tpCalls < MaxCalls
    /\ \E name \in TempNames :
          /\ ~tpTemp[name].exists
          /\ LET r == tpid_enter(tpSource, tpTemp, name)
             IN  /\ tpTemp' = r.temps
                 /\ tpPath' = name
                 /\ tpPc' = IF r.result = "yielded" THEN "body" ELSE "left"
                 /\ tpResult' = r.result
    /\ tpCalls' = tpCalls + 1
    /\ UNCHANGED << tpSource, pipeVars, dlVars, exVars, skVars >>

\* the body of the with statement ends normally
TpidBodyReturns ==
    /\ tpPc = "body"
    /\ tpTemp' = tpid_exit(tpTemp, tpPath)
    /\ tpPc' = "left"
    /\ tpResult' = "returned"
    /\ UNCHANGED << tpSource, tpPath, tpCalls, pipeVars, dlVars, exVars, skVars >>

\* the body of the with statement raises: the exception is thrown into the
\* generator at the yield, and the finally clause runs
TpidBodyRaises ==
    /\ tpPc = "body"
    /\ tpTemp' = tpid_exit(tpTemp, tpPath)
    /\ tpPc' = "left"
    /\ tpResult' = "raised"
    /\ UNCHANGED << tpSource, tpPath, tpCalls, pipeVars, dlVars, exVars, skVars >>

\* the evaluation is removed, restored or rewritten by something else
TpidSourceChanges ==
    /\ tpCalls < MaxCalls
    /\ \E f \in Files(MaxLen) : f # tpSource /\ tpSource' = f
    /\ UNCHANGED << tpTemp, tpPath, tpPc, tpResult, tpCalls,
                    pipeVars, dlVars, exVars, skVars >>

NextTpid == TpidEnter \/ TpidBodyReturns \/ TpidBodyRaises \/ TpidSourceChanges

SpecTpid == InitTpid /\ [][NextTpid]_vars

(***************************************************************************)
(* Spec: one run of main().                                                *)
(***************************************************************************)
Particles == {"neutron", "thermal", "photon"}

\* the order in which main() converts the particles
ParticleOrder == << "neutron", "thermal", "photon" >>

\* release_details[...]['compressed_files'], with the long names cut to a letter:
\* N.zip?download=1, T.zip?download=1, p/P.tar.gz and a/A.tar.gz
EntryNeutron ==
    << "N", ".", "z", "i", "p", "?", "d", "o", "w", "n", "l", "o", "a", "d", "=", "1" >>
EntryThermal ==
    << "T", ".", "z", "i", "p", "?", "d", "o", "w", "n", "l", "o", "a", "d", "=", "1" >>
EntryPhotoat == << "p", "/", "P", ".", "t", "a", "r", ".", "g", "z" >>
EntryAtom == << "a", "/", "A", ".", "t", "a", "r", ".", "g", "z" >>

compressed_files(particle) ==
    CASE particle = "neutron" -> << EntryNeutron >>
      [] particle = "thermal" -> << EntryThermal >>
      [] particle = "photon" -> << EntryPhotoat, EntryAtom >>

\* the path part of base_url: it ends with a slash
BaseUrlPath == << "/", "f", "/" >>

\* the part of s before the first character of `stops`
Before(s, stops) ==
    LET at == {i \in 1..Len(s) : s[i] \in stops}
    IN  IF at = {} THEN s
        ELSE SubSeq(s, 1, (CHOOSE i \in at : \A j \in at : i <= j) - 1)

\* Path(s).name: what follows the last slash
PathName(s) ==
    LET at == {i \in 1..Len(s) : s[i] = "/"}
    IN  IF at = {} THEN s
        ELSE SubSeq(s, (CHOOSE i \in at : \A j \in at : j <= i) + 1, Len(s))

\* a name left as it is
RStrip_nothing(s, chars) == s

\* str.rstrip(chars): the trailing characters that are in chars are dropped
RECURSIVE RStrip(_, _)
RStrip(s, chars) ==
    IF Len(s) = 0 THEN s
    ELSE IF s[Len(s)] \in chars THEN RStrip(SubSeq(s, 1, Len(s) - 1), chars)
    ELSE s

\* download(): Path(urlparse(url).path).name for url = base_url + f
LocalName(f) == PathName(Before(BaseUrlPath \o f, {"?", "#"}))

\* main(): Path(f).name.rstrip('?download=1')
ExtractName(f) ==
    RStrip(PathName(f), {"?", "d", "o", "w", "n", "l", "a", "=", "1"})

CacheNames ==
    UNION {UNION {{LocalName(compressed_files(p)[i]),
                   ExtractName(compressed_files(p)[i])} :
                     i \in 1..Len(compressed_files(p))} : p \in Particles}

CachePaths == Particles \X CacheNames

\* the archive of the release with n evaluations in it, and what a transfer
\* that damages it delivers: as many bytes, the first one wrong
ReleaseArchive(n) == [i \in 1..(n + 1) |-> 1]

Damaged(bytes) == [bytes EXCEPT ![1] = 0]

\* release_details[...]['checksums']: the digests of the archives of the release
ManifestChecksum(n) == Md5(ReleaseArchive(n))

\* the (particle, index) of every archive of the particles asked for, in the
\* order of the two nested loops
RECURSIVE ArchiveLoop(_, _)
ArchiveLoop(order, particles) ==
    IF Len(order) = 0 THEN << >>
    ELSE (IF Head(order) \in particles
          THEN [i \in 1..Len(compressed_files(Head(order))) |-> << Head(order), i >>]
          ELSE << >>)
         \o ArchiveLoop(Tail(order), particles)

\* the names the converters give to materials
NeutronNames == {NameH1, NameH2}
ThermalNames == {NameHinH2O, NameDinD2O}
PhotonNames == {NameH, NameHe}

\* h5_file = output_dir / f'{data.name}.h5' with every file of a directory
\* under one name
H5File_one_name(output_dir, name) == << output_dir, H5Name(<< >>) >>

\* h5_file = output_dir / f'{data.name}.h5'
H5File(output_dir, name) == << output_dir, H5Name(name) >>

\* the evaluations of archive k under endf_files_dir / particle
Extracted(particle, k) == {m[2] : m \in {x \in endf[particle].files : x[1] = k}}

\* details['sab_files']: pair i is (evaluation 1 of the neutron archive,
\* evaluation i of the thermal archive)
sab_files == [i \in 1..relSize |-> << 1, i >>]

\* an ascending enumeration of a set of numbers
RECURSIVE Ascending(_)
Ascending(set) ==
    IF set = {} THEN << >>
    ELSE LET least == CHOOSE x \in set : \A y \in set : x <= y
         IN  << least >> \o Ascending(set \ {least})

\* zip(sorted(photo_files), sorted(atom_files))
PhotonPairs ==
    LET photo == Ascending(Extracted("photon", 1))
        atom  == Ascending(Extracted("photon", 2))
        n     == IF Len(photo) < Len(atom) THEN Len(photo) ELSE Len(atom)
    IN  [i \in 1..n |-> << photo[i], atom[i] >>]

\* glob() / rglob() on a directory that holds the files of `set`: each once, in
\* the order the file system happens to give
Glob(set) ==
    {l \in [1..Cardinality(set) -> set] :
        \A i, j \in 1..Cardinality(set) : i # j => l[i] # l[j]}

\* the stage main() reaches when it leaves the one before
AfterThermal == IF "photon" \in args.particles THEN "photon" ELSE "write_index"

AfterNeutron == IF "thermal" \in args.particles THEN "thermal" ELSE AfterThermal

AfterMkdirs == IF "neutron" \in args.particles THEN "neutron" ELSE AfterNeutron

\* the extract stage entered whatever args.extract says
AfterDownload_always_extract == "extract"

AfterDownload == IF args.extract THEN "extract" ELSE "mkdirs"

\* the cache purged after the extract loop whatever args.cleanup says
AfterExtract_always_cleanup == "cleanup"

\* if args.cleanup and download_path.exists(): rmtree(download_path)
AfterExtract == IF args.cleanup /\ cacheDir THEN "cleanup" ELSE "mkdirs"

AfterStart == IF args.download THEN "download" ELSE AfterDownload

StageName(place) ==
    CASE place = "download" -> << "Download" >>
      [] place = "extract" -> << "Extract" >>
      [] place = "cleanup" -> << "Cleanup" >>
      [] place = "neutron" -> << "Convert-Neutron" >>
      [] place = "thermal" -> << "Convert-Thermal" >>
      [] place = "photon" -> << "Convert-Photon" >>
      [] place = "write_index" -> << "Write-Index" >>
      [] OTHER -> << >>

\* what the loop at `place` iterates over, taken when main() gets there; the
\* listing of the neutron evaluations comes in the order rglob happens to give
WorkLists(place) ==
    CASE place \in {"download", "extract"} ->
            {ArchiveLoop(ParticleOrder, args.particles)}
      [] place = "neutron" -> Glob(Extracted("neutron", 1))
      [] place = "thermal" -> {sab_files}
      [] place = "photon" -> {PhotonPairs}
      [] OTHER -> {<< >>}

\* main() moves on to `place`; a photon loop over no pair is left at once
Goto(place) ==
    IF place = "photon" /\ Len(PhotonPairs) = 0
    THEN /\ pc' = "write_index"
         /\ ran' = ran \o StageName("photon") \o StageName("write_index")
         /\ todo' = << >>
    ELSE /\ pc' = place
         /\ ran' = ran \o StageName(place)
         /\ todo' \in WorkLists(place)

Abort ==
    /\ pc' = "aborted"
    /\ todo' = << >>
    /\ ran' = ran

Init ==
    /\ args \in [download : BOOLEAN, extract : BOOLEAN, cleanup : BOOLEAN,
                 particles : (SUBSET Particles) \ {{}}]
    /\ relSize \in 1..MaxEval
    /\ pc = "start"
    /\ todo = << >>
    \* the download cache and the extracted tree are as an earlier run left them
    /\ \E cached \in BOOLEAN :
          /\ cacheDir = cached
          /\ cache = [path \in CachePaths |->
                        IF cached /\ \E i \in 1..Len(compressed_files(path[1])) :
                                        path[2] = LocalName(compressed_files(path[1])[i])
                        THEN FileOf(ReleaseArchive(relSize))
                        ELSE Absent]
    /\ \E extracted \in BOOLEAN :
          endf = [p \in Particles |->
                    [exists |-> extracted,
                     files |-> IF extracted
                               THEN (1..Len(compressed_files(p))) \X (1..relSize)
                               ELSE {}]]
    /\ dest = [p \in Particles |-> {}]
    /\ destDirs = {}
    /\ library = << >>
    /\ xml = [written |-> FALSE, paths |-> << >>]
    /\ jobs = << >>
    /\ waited = 0
    /\ failedIn = "none"
    /\ ran = << >>
    /\ fetched = {}
    /\ opened = {}
    /\ DlIdle /\ ExIdle /\ SkIdle /\ TpIdle

otherVars == << dlVars, exVars, skVars, tpVars >>

\* the command line is parsed and the manifest built
Start ==
    /\ pc = "start"
    /\ Goto(AfterStart)
    /\ UNCHANGED << args, relSize, cache, cacheDir, endf, dest, destDirs, library,
                    xml, jobs, waited, failedIn, otherVars,
                    fetched, opened >>

\* one turn of the download loop: download(url, output_path, checksum)
DownloadArchive ==
    /\ pc = "download"
    /\ Len(todo) > 0
    /\ LET particle == Head(todo)[1]
           f == compressed_files(particle)[Head(todo)[2]]
           path == << particle, LocalName(f) >>
       IN  \E served \in {ReleaseArchive(relSize), Damaged(ReleaseArchive(relSize))} :
             LET r == download(cache[path], served, ManifestChecksum(relSize))
             IN  /\ cache' = [cache EXCEPT ![path] = r.local]
                 /\ cacheDir' = TRUE
                 /\ fetched' = fetched \cup {<< Head(todo), path >>}
                 /\ IF r.result = "OSError" THEN Abort
                    ELSE IF Len(todo) = 1 THEN Goto(AfterDownload)
                    ELSE /\ todo' = Tail(todo)
                         /\ UNCHANGED << pc, ran >>
    /\ UNCHANGED << args, relSize, endf, dest, destDirs, library, xml, jobs,
                    waited, failedIn, otherVars,
                    opened >>

\* one turn of the extract loop: extract(download_path / particle / name,
\* endf_files_dir / particle)
ExtractArchive ==
    /\ pc = "extract"
    /\ Len(todo) > 0
    /\ LET particle == Head(todo)[1]
           k == Head(todo)[2]
           name == ExtractName(compressed_files(particle)[k])
           r == extract(name, cache[<< particle, name >>],
                        [exists |-> endf[particle].exists,
                         files |-> Extracted(particle, k)], FALSE)
       IN  /\ endf' = [endf EXCEPT ![particle] =
                         [exists |-> r.dir.exists,
                          files |-> endf[particle].files \cup ({k} \X r.dir.files)]]
           /\ opened' = opened \cup {<< Head(todo), << particle, name >> >>}
           /\ IF r.result # "returned" THEN Abort
              ELSE IF Len(todo) = 1 THEN Goto(AfterExtract)
              ELSE /\ todo' = Tail(todo)
                   /\ UNCHANGED << pc, ran >>
    /\ UNCHANGED << args, relSize, cache, cacheDir, dest, destDirs, library, xml,
                    jobs, waited, failedIn, otherVars,
                    fetched >>

\* rmtree(download_path)
Cleanup ==
    /\ pc = "cleanup"
    /\ cache' = [path \in CachePaths |-> Absent]
    /\ cacheDir' = FALSE
    /\ Goto("mkdirs")
    /\ UNCHANGED << args, relSize, endf, dest, destDirs, library, xml, jobs,
                    waited, failedIn, otherVars,
                    fetched, opened >>

\* the output directory of every particle is made, and the library created
MakeDirs ==
    /\ pc = "mkdirs"
    /\ destDirs' = destDirs \cup args.particles
    /\ library' = << >>
    /\ jobs' = << >>
    /\ waited' = 0
    /\ Goto(AfterMkdirs)
    /\ UNCHANGED << args, relSize, cache, cacheDir, endf, dest, xml, failedIn,
                    otherVars,
                    fetched, opened >>


NewJob(input) == [input |-> input, status |-> "queued", name |-> << >>, path |-> << >>]

Active == {i \in 1..Len(jobs) : jobs[i].status \in {"converting", "writing"}}

\* a result taken as ready whatever its job is doing
Finished_always(i) == TRUE

\* AsyncResult.ready(): the job has ended, with a value or with an exception
Finished(i) == jobs[i].status \in {"done", "failed"}

\* pool.apply_async(process_neutron, func_args); results.append(r)
SubmitNeutron ==
    /\ pc = "neutron"
    /\ Len(todo) > 0
    /\ jobs' = Append(jobs, NewJob(Head(todo)))
    /\ todo' = Tail(todo)
    /\ UNCHANGED << args, relSize, pc, cache, cacheDir, endf, dest, destDirs,
                    library, xml, waited, failedIn, ran, otherVars,
                    fetched, opened >>

\* pool.apply_async(process_thermal, func_args); results.append(r)
SubmitThermal ==
    /\ pc = "thermal"
    /\ Len(todo) > 0
    /\ jobs' = Append(jobs, NewJob(Head(todo)))
    /\ todo' = Tail(todo)
    /\ UNCHANGED << args, relSize, pc, cache, cacheDir, endf, dest, destDirs,
                    library, xml, waited, failedIn, ran, otherVars,
                    fetched, opened >>

\* a free worker of the pool takes a job from the queue
WorkerTakesJob(i) ==
    /\ jobs[i].status = "queued"
    /\ Cardinality(Active) < PoolSize
    /\ jobs' = [jobs EXCEPT ![i].status = "converting"]
    /\ UNCHANGED << args, relSize, pc, todo, cache, cacheDir, endf, dest, destDirs,
                    library, xml, waited, failedIn, ran, otherVars,
                    fetched, opened >>

\* a converter has returned data: the job opens its output file for writing
StartsWriting(i, particle, name) ==
    LET h5_file == H5File(particle, name)
    IN  /\ jobs' = [jobs EXCEPT ![i].status = "writing", ![i].name = name,
                                ![i].path = h5_file]
        /\ dest' = [dest EXCEPT ![h5_file[1]] = @ \cup {h5_file[2]}]
        /\ UNCHANGED << args, relSize, pc, todo, cache, cacheDir, endf, destDirs,
                        library, xml, waited, failedIn, ran, otherVars,
                    fetched, opened >>

\* the exception of a converter leaves the job: it is kept in the job's result
JobRaises(i, particle) ==
    /\ jobs' = [jobs EXCEPT ![i].status = "failed"]
    /\ failedIn' = IF failedIn = "none" THEN particle ELSE failedIn
    /\ UNCHANGED << args, relSize, pc, todo, cache, cacheDir, endf, dest, destDirs,
                    library, xml, waited, ran, otherVars,
                    fetched, opened >>

\* process_neutron: IncidentNeutron.from_njoy returns the data of some nuclide
NeutronConverts(i) ==
    /\ pc = "neutron"
    /\ jobs[i].status = "converting"
    /\ \E name \in NeutronNames : StartsWriting(i, "neutron", name)

\* process_neutron: from_njoy raises, the path is printed, the exception re-raised
NeutronRaises(i) ==
    /\ pc = "neutron"
    /\ jobs[i].status = "converting"
    /\ JobRaises(i, "neutron")

\* process_thermal: both evaluations are there and ThermalScattering.from_njoy
\* returns the data of some material
ThermalConverts(i) ==
    /\ pc = "thermal"
    /\ jobs[i].status = "converting"
    /\ jobs[i].input[1] \in Extracted("neutron", 1)
    /\ jobs[i].input[2] \in Extracted("thermal", 1)
    /\ \E name \in ThermalNames : StartsWriting(i, "thermal", name)

\* process_thermal: the probe or the conversion raises (always so when an
\* evaluation of the pair is missing)
ThermalRaises(i) ==
    /\ pc = "thermal"
    /\ jobs[i].status = "converting"
    /\ JobRaises(i, "thermal")

\* data.export_to_hdf5 returns: the job is done
JobWritten(i) ==
    /\ jobs[i].status = "writing"
    /\ jobs' = [jobs EXCEPT ![i].status = "done"]
    /\ UNCHANGED << args, relSize, pc, todo, cache, cacheDir, endf, dest, destDirs,
                    library, xml, waited, failedIn, ran, otherVars,
                    fetched, opened >>

\* r.wait() returns for the next result: the job has ended, with a value or
\* with an exception, which wait() does not raise
WaitReturns ==
    /\ pc \in {"neutron", "thermal"}
    /\ Len(todo) = 0
    /\ waited < Len(jobs)
    /\ Finished(waited + 1)
    /\ waited' = waited + 1
    /\ UNCHANGED << args, relSize, pc, todo, cache, cacheDir, endf, dest, destDirs,
                    library, xml, jobs, failedIn, ran, otherVars,
                    fetched, opened >>

\* sorted((args.destination / particle).glob('*.h5'), key=sort_key) and
\* library.register_file(p) for each p of it: the paths appended, or ValueError
Register(particle, next) ==
    \E listing \in Glob(dest[particle]) :
       LET r == Sorted(listing)
       IN  IF r.raised
           THEN Abort /\ UNCHANGED library
           ELSE /\ library' = library \o [i \in 1..Len(r.list) |->
                                            << particle, r.list[i] >>]
                /\ Goto(next)

\* the pool of the neutron stage is left, and its directory registered
RegisterNeutron ==
    /\ pc = "neutron"
    /\ Len(todo) = 0
    /\ waited = Len(jobs)
    /\ Register("neutron", AfterNeutron)
    /\ jobs' = << >>
    /\ waited' = 0
    /\ UNCHANGED << args, relSize, cache, cacheDir, endf, dest, destDirs, xml,
                    failedIn, otherVars,
                    fetched, opened >>

\* the pool of the thermal stage is left, and its directory registered
RegisterThermal ==
    /\ pc = "thermal"
    /\ Len(todo) = 0
    /\ waited = Len(jobs)
    /\ Register("thermal", AfterThermal)
    /\ jobs' = << >>
    /\ waited' = 0
    /\ UNCHANGED << args, relSize, cache, cacheDir, endf, dest, destDirs, xml,
                    failedIn, otherVars,
                    fetched, opened >>

\* one turn of the photon loop: the pair is converted, written and registered
PhotonConverts ==
    /\ pc = "photon"
    /\ Len(todo) > 0
    /\ \E name \in PhotonNames :
          LET h5_file == H5File("photon", name)
          IN  /\ dest' = [dest EXCEPT ![h5_file[1]] = @ \cup {h5_file[2]}]
              /\ library' = Append(library, h5_file)
    /\ IF Len(todo) = 1 THEN Goto("write_index")
       ELSE /\ todo' = Tail(todo)
            /\ UNCHANGED << pc, ran >>
    /\ UNCHANGED << args, relSize, cache, cacheDir, endf, destDirs, xml, jobs,
                    waited, failedIn, otherVars,
                    fetched, opened >>

\* IncidentPhoton.from_endf raises: the exception leaves main()
PhotonRaises ==
    /\ pc = "photon"
    /\ Len(todo) > 0
    /\ Abort
    /\ UNCHANGED << args, relSize, cache, cacheDir, endf, dest, destDirs, library,
                    xml, jobs, waited, failedIn, otherVars,
                    fetched, opened >>

\* library.export_to_xml(args.destination / 'cross_sections.xml')
WriteIndex ==
    /\ pc = "write_index"
    /\ xml' = [written |-> TRUE, paths |-> library]
    /\ pc' = "done"
    /\ UNCHANGED << args, relSize, todo, cache, cacheDir, endf, dest, destDirs,
                    library, jobs, waited, failedIn, ran, otherVars,
                    fetched, opened >>

Next ==
    \/ Start
    \/ DownloadArchive
    \/ ExtractArchive
    \/ Cleanup
    \/ MakeDirs
    \/ SubmitNeutron
    \/ SubmitThermal
    \/ \E i \in 1..Len(jobs) : WorkerTakesJob(i)
    \/ \E i \in 1..Len(jobs) : NeutronConverts(i)
    \/ \E i \in 1..Len(jobs) : NeutronRaises(i)
    \/ \E i \in 1..Len(jobs) : ThermalConverts(i)
    \/ \E i \in 1..Len(jobs) : ThermalRaises(i)
    \/ \E i \in 1..Len(jobs) : JobWritten(i)
    \/ WaitReturns
    \/ RegisterNeutron
    \/ RegisterThermal
    \/ PhotonConverts
    \/ PhotonRaises
    \/ WriteIndex

Spec == Init /\ [][Next]_vars


(***************************************************************************)
(* The claims.                                                             *)
(***************************************************************************)

IsNeutronEntry(e) == e[1] = "neutron"
IsThermalEntry(e) == e[1] = "thermal"
IsPhotonEntry(e) == e[1] = "photon"
IsPoolEntry(e) == e[1] # "photon"

NoDup(seq) == \A i, j \in 1..Len(seq) : i # j => seq[i] # seq[j]

\* consecutive entries have strictly growing keys
AscendingByKey(seq) ==
    \A i \in 1..(Len(seq) - 1) :
       KeyLess(sort_key(seq[i][2]), sort_key(seq[i + 1][2]))

ThermalAfterNeutron ==
    \A i, j \in 1..Len(library) :
       (IsThermalEntry(library[i]) /\ IsNeutronEntry(library[j])) => j < i

InRan(stage) == \E i \in 1..Len(ran) : ran[i] = stage

\* C1 (as stated): once a job of the neutron or thermal pool has raised, main()
\* does not get past the stage of that job: it is still in the stage or has
\* aborted, and cross_sections.xml is not written.
C1_JobFailureAbortsRun ==
    failedIn # "none" => (pc \in {failedIn, "aborted"} /\ ~xml.written)

\* C4 (as stated): the index holds no path twice, its neutron entries and its
\* thermal entries are in ascending key order, and every thermal entry comes
\* after every neutron entry.
C4_IndexOnceAndOrdered ==
    /\ NoDup(library)
    /\ AscendingByKey(SelectSeq(library, IsNeutronEntry))
    /\ AscendingByKey(SelectSeq(library, IsThermalEntry))
    /\ ThermalAfterNeutron

\* C4 (amended): the index holds no neutron or thermal path twice and holds one
\* photon entry for every converted pair; its neutron entries and its thermal
\* entries are in ascending key order, and every thermal entry comes after
\* every neutron entry.
C4_PoolEntriesOnceAndOrdered ==
    /\ NoDup(SelectSeq(library, IsPoolEntry))
    /\ pc = "photon" =>
          Len(SelectSeq(library, IsPhotonEntry)) = Len(PhotonPairs) - Len(todo)
    /\ (pc \in {"write_index", "done"} /\ "photon" \in args.particles) =>
          Len(SelectSeq(library, IsPhotonEntry)) = Len(PhotonPairs)
    /\ AscendingByKey(SelectSeq(library, IsNeutronEntry))
    /\ AscendingByKey(SelectSeq(library, IsThermalEntry))
    /\ ThermalAfterNeutron

\* C4, witness: a finished run has registered two neutron files, two thermal
\* files and two photon files.
C4_Witness ==
    /\ pc = "done"
    /\ Len(SelectSeq(library, IsNeutronEntry)) = 2
    /\ Len(SelectSeq(library, IsThermalEntry)) = 2
    /\ Len(SelectSeq(library, IsPhotonEntry)) = 2

\* C5 (as stated): a finished run with download and extraction on, all three
\* particles asked for and one evaluation (one pair) per particle has
\* registered three different files, each of them on disk under the
\* destination, and cross_sections.xml lists just these.
C5_EndToEndThreeEntries ==
    (/\ pc = "done"
     /\ relSize = 1
     /\ args.download /\ args.extract
     /\ args.particles = Particles)
        => /\ Len(library) = 3
           /\ NoDup(library)
           /\ \A i \in 1..Len(library) : library[i][2] \in dest[library[i][1]]
           /\ xml.written
           /\ xml.paths = library

StageOrder ==
    << "Download", "Extract", "Cleanup", "Convert-Neutron", "Convert-Thermal",
       "Convert-Photon", "Write-Index" >>

StageRank(stage) == CHOOSE i \in 1..Len(StageOrder) : StageOrder[i] = stage

\* what C6 says and the code does: the order of the stages, the flag behind
\* each of them, and Write-Index at the end
StagesInOrderAndGated ==
    /\ \A i, j \in 1..Len(ran) : i < j => StageRank(ran[i]) < StageRank(ran[j])
    /\ InRan("Download") => args.download
    /\ InRan("Extract") => args.extract
    /\ InRan("Cleanup") => args.cleanup
    /\ InRan("Convert-Neutron") => "neutron" \in args.particles
    /\ InRan("Convert-Thermal") => "thermal" \in args.particles
    /\ InRan("Convert-Photon") => "photon" \in args.particles
    \* a stage has ended when the next one starts: no job is left running
    /\ pc \notin {"neutron", "thermal"} => Len(jobs) = 0
    /\ xml.written <=> pc = "done"
    /\ pc = "done" =>
          /\ ran[Len(ran)] = "Write-Index"
          /\ args.download <=> InRan("Download")
          /\ args.extract <=> InRan("Extract")
          /\ "neutron" \in args.particles <=> InRan("Convert-Neutron")
          /\ "thermal" \in args.particles <=> InRan("Convert-Thermal")
          /\ "photon" \in args.particles <=> InRan("Convert-Photon")

HasPath(i) == jobs[i].status \in {"writing", "done"}

\* C9 (as stated): no two jobs of the pool write the same output path at the
\* same time.
C9_NoTwoJobsWriteOnePath ==
    \A i, j \in 1..Len(jobs) :
       (i # j /\ jobs[i].status = "writing" /\ jobs[j].status = "writing")
          => jobs[i].path # jobs[j].path

\* C9 (amended): two jobs of the pool write the same output path only when
\* their materials have the same name; every job writes under the output
\* directory of the particle of its stage, and jobs exist only while main()
\* is in the stage that submitted them.
C9_DistinctNamesDistinctPaths ==
    /\ \A i, j \in 1..Len(jobs) :
          (i # j /\ HasPath(i) /\ HasPath(j) /\ jobs[i].name # jobs[j].name)
             => jobs[i].path # jobs[j].path
    /\ \A i \in 1..Len(jobs) :
          HasPath(i) => (jobs[i].path[1] = pc /\ jobs[i].path[2] \in dest[pc])
    /\ Len(jobs) > 0 => pc \in {"neutron", "thermal"}

\* C9, witness: two jobs of the thermal pool are writing at the same time, to
\* different files.
C9_Witness ==
    /\ pc = "thermal"
    /\ Len(jobs) = 2
    /\ jobs[1].status = "writing"
    /\ jobs[2].status = "writing"
    /\ jobs[1].path # jobs[2].path

\* the one arrangement of the files of a directory in ascending key order
InKeyOrder(particle) ==
    CHOOSE l \in Glob(dest[particle]) :
       \A i \in 1..(Len(l) - 1) : KeyLess(sort_key(l[i]), sort_key(l[i + 1]))

AsEntries(particle, names) == [i \in 1..Len(names) |-> << particle, names[i] >>]

Registered(place, stage) == InRan(stage) /\ pc \notin {place, "aborted"}

\* C10: when all jobs of a stage have ended, the output directory holds the
\* files of the jobs that converted, whatever the order of submission and of
\* completion was; and what the stage has registered is that directory in
\* ascending key order.
C10_IndexFromDirectoryInKeyOrder ==
    /\ (pc \in {"neutron", "thermal"} /\ Len(todo) = 0
           /\ \A i \in 1..Len(jobs) : Finished(i))
          => dest[pc] = {H5Name(jobs[i].name) :
                           i \in {k \in 1..Len(jobs) : jobs[k].status = "done"}}
    /\ Registered("neutron", "Convert-Neutron")
          => SelectSeq(library, IsNeutronEntry)
               = AsEntries("neutron", InKeyOrder("neutron"))
    /\ Registered("thermal", "Convert-Thermal")
          => SelectSeq(library, IsThermalEntry)
               = AsEntries("thermal", InKeyOrder("thermal"))

\* C10, witness: the neutron files H1 and H2 are registered in this order,
\* and the jobs of the thermal stage have all converted, the one submitted
\* first with the material that sorts last.
C10_Witness ==
    /\ pc = "thermal"
    /\ SelectSeq(library, IsNeutronEntry)
         = << << "neutron", H5Name(NameH1) >>, << "neutron", H5Name(NameH2) >> >>
    /\ Len(jobs) = 2
    /\ waited = 2
    /\ jobs[1].status = "done" /\ jobs[1].name = NameHinH2O
    /\ jobs[2].status = "done" /\ jobs[2].name = NameDinD2O

\* C2 (as stated): when a call of download ended with the integrity error, the
\* next call with the same url and checksum reads the body again, writes it to
\* the local path again, and returns only a file whose digest is the checksum.
C2_RetryDownloadsAndChecksAgain ==
    [][(dlCalls' = dlCalls + 1 /\ dlResult = "OSError")
          => /\ dlRead' = dlRead + Len(dlServed)
             /\ dlLocal' = FileOf(dlServed)
             /\ (dlResult' = "returned" => Md5(dlLocal'.bytes) = dlChecksum)]_vars

\* C3: a call of download that finds a file at the local path whose length is
\* the Content-Length of the response reads nothing of the body, leaves the
\* file as it is and returns the path; so does every further such call.
C3_SameLengthIsSkipped ==
    [][(dlCalls' = dlCalls + 1 /\ dlLocal.exists
            /\ Len(dlLocal.bytes) = Len(dlServed))
          => /\ dlLocal' = dlLocal
             /\ dlRead' = dlRead
             /\ dlResult' = "returned"]_vars

\* C3, witness: two or more calls have returned for a file that was already
\* there with the length the server announces, and no byte was read.
C3_Witness ==
    /\ dlCalls >= 2
    /\ dlResult = "returned"
    /\ dlRead = 0
    /\ dlLocal.exists
    /\ Len(dlLocal.bytes) > 0
    /\ Len(dlLocal.bytes) = Len(dlServed)

\* C7: a call of extract on a name whose suffix is neither .zip nor one of the
\* tar suffixes (a .rar, or no suffix) raises ValueError, adds no file under
\* the destination and leaves the archive where it is, deletion asked or not.
C7_UnsupportedSuffixChangesNothing ==
    [][(exCalls' = exCalls + 1 /\ exName \in {ArchiveRar, ArchivePlain})
          => /\ exResult' = "ValueError"
             /\ exDir'.files = exDir.files
             /\ exArchive' = exArchive]_vars

\* C7, witness: extract has raised ValueError for a .rar that holds a member,
\* with deletion asked: the archive is still there and the destination empty.
C7_Witness ==
    /\ exCalls >= 1
    /\ exName = ArchiveRar
    /\ exResult = "ValueError"
    /\ exDel
    /\ exArchive.exists
    /\ ArchiveOk(exArchive.bytes)
    /\ Members(exArchive.bytes) # {}
    /\ exDir.files = {}

IsCName(name) == Len(name) >= 2 /\ name[1] = "c" /\ name[2] = "_"

\* the files the neutron converter writes: GNDS nuclide names
NuclideFiles ==
    {H5Name(NameH1), H5Name(NameH2), H5Name(NameU238), H5Name(NameU235m1)}

CAfterNonC(seq) ==
    \A i, j \in 1..Len(seq) : i < j => ~(IsCName(seq[i]) /\ ~IsCName(seq[j]))

SameFiles(l1, l2) ==
    /\ Len(l1) = Len(l2)
    /\ {l1[i] : i \in 1..Len(l1)} = {l2[i] : i \in 1..Len(l2)}

\* C8 (as stated): for any listing that holds a c_ name and a name that does
\* not start with c_ (n_1-H-001g and c_H_in_H2O, say), sorting by the key
\* gives the listing with every c_ name behind every other name.
C8_AnyMixedListing ==
    (/\ skCalled
     /\ \E i \in 1..Len(skListing) : IsCName(skListing[i])
     /\ \E i \in 1..Len(skListing) : ~IsCName(skListing[i]))
        => /\ ~skSorted.raised
           /\ SameFiles(skListing, skSorted.list)
           /\ CAfterNonC(skSorted.list)

\* C8 (amended): for a listing whose names either start with c_ or are GNDS
\* nuclide names, the key of every nuclide name is smaller than the key of
\* every c_ name, and sorting by the key gives the listing with every c_ name
\* behind every nuclide name.
C8_NuclidesBeforeCNames ==
    (/\ skCalled
     /\ \A i \in 1..Len(skListing) :
            IsCName(skListing[i]) \/ skListing[i] \in NuclideFiles)
        => /\ ~skSorted.raised
           /\ SameFiles(skListing, skSorted.list)
           /\ CAfterNonC(skSorted.list)
           /\ \A i, j \in 1..Len(skListing) :
                 (IsCName(skListing[i]) /\ ~IsCName(skListing[j]))
                    => /\ KeyLess(sort_key(skListing[j]), sort_key(skListing[i]))
                       /\ ~KeyLess(sort_key(skListing[i]), sort_key(skListing[j]))

\* C8, witness: a listing that starts with a c_ name and ends with a nuclide
\* name has been sorted, and the c_ name has moved behind.
C8_Witness ==
    /\ skCalled
    /\ Len(skListing) = 3
    /\ skListing[1] = H5Name(NameHinH2O)
    /\ skListing[3] = H5Name(NameU238)
    /\ skListing[2] \in NuclideFiles
    /\ ~skSorted.raised
    /\ skSorted.list[3] = H5Name(NameHinH2O)

(***************************************************************************)
(* The temporary file of fix_missing_tpid, under SpecTpid.                 *)
(***************************************************************************)
TempFilesLeft == {name \in DOMAIN tpTemp : tpTemp[name].exists}

\* C11: once the scope of fix_missing_tpid is left - normally, by an exception
\* of the body, or by a failure while the patched copy is written - no
\* temporary file made by a call is on disk.
C11_NoTempFileRemains == tpPc = "left" => TempFilesLeft = {}

(***************************************************************************)
(* The wait of a pool stage, under Spec.                                   *)
(***************************************************************************)
AllJobsEnded == \A i \in 1..Len(jobs) : jobs[i].status \in {"done", "failed"}

\* main() registers a file of the pool stage it is in, or leaves that stage
RegistersOrLeavesPoolStage ==
    /\ pc \in {"neutron", "thermal"}
    /\ (library' # library \/ pc' # pc)

\* C12: in the Convert-Neutron and Convert-Thermal stages main() registers an
\* output of the stage or goes on to a later stage only when every input of
\* the stage has been submitted and every submitted job has ended, with a
\* result or with an exception: no job of the stage is queued or running then.
C12_WaitsForEveryJob ==
    [][RegistersOrLeavesPoolStage => (Len(todo) = 0 /\ AllJobsEnded)]_vars

\* the neutron stage had a job that wrote its file and a job that raised, its
\* directory is registered and the thermal stage is active
C12_Witness ==
    /\ pc = "thermal"
    /\ failedIn = "neutron"
    /\ \E i \in 1..Len(library) : library[i][1] = "neutron"
    /\ Len(jobs) > 0

(***************************************************************************)
(* The purge of the download cache, under Spec.                            *)
(***************************************************************************)
\* the archives of the particles asked for
ArchiveEntries ==
    LET loop == ArchiveLoop(ParticleOrder, args.particles)
    IN  {loop[i] : i \in 1..Len(loop)}

OpenedEntries == {o[1] : o \in opened}

\* extract() was called for every archive of every particle asked for, main()
\* is past the extract loop, and the members of every archive are in the
\* extraction directory of its particle
EveryArchiveExtracted ==
    /\ OpenedEntries = ArchiveEntries
    /\ pc \notin {"extract", "aborted"}
    /\ \A o \in opened :
          /\ cache[o[2]].exists
          /\ ArchiveOk(cache[o[2]].bytes)
          /\ Members(cache[o[2]].bytes) \subseteq Extracted(o[1][1], o[1][2])

\* a step that removes the download cache or a file of it
Purges ==
    \/ cacheDir /\ ~cacheDir'
    \/ \E path \in DOMAIN cache : cache[path].exists /\ ~cache'[path].exists

CacheStays == cache' = cache /\ cacheDir' = cacheDir

\* C13 as stated: the cache is purged only after every archive of every
\* particle asked for has been extracted and only with the cleanup flag set;
\* with cleanup unset no step of the run changes the cache; an extraction that
\* fails leaves the cache in place.
C13_CacheUnchangedWithoutCleanup ==
    [][ /\ Purges => (args.cleanup /\ EveryArchiveExtracted)
        /\ ~args.cleanup => CacheStays
        /\ (pc = "extract" /\ pc' = "aborted") => CacheStays ]_vars

\* C13, amended: the cache is purged only after every archive of every
\* particle asked for has been extracted and only with the cleanup flag (and
\* the extract flag) set; with cleanup unset nothing is ever removed from the
\* cache, only the Download stage changes it, and the Extract stage - a failing
\* extraction included - leaves it as it is.
C13_PurgeOnlyAfterExtractionUnderCleanup ==
    [][ /\ Purges => (args.cleanup /\ args.extract /\ pc = "cleanup"
                        /\ EveryArchiveExtracted)
        /\ ~args.cleanup => (~Purges /\ (~CacheStays => pc = "download"))
        /\ ~CacheStays => pc \in {"download", "cleanup"}
        /\ pc = "extract" => CacheStays ]_vars

\* all three particles were asked for, each of the four archives was extracted,
\* and then the cache was purged
C13_Witness ==
    /\ args.particles = Particles
    /\ args.cleanup
    /\ InRan("Cleanup")
    /\ pc # "cleanup"
    /\ Cardinality(OpenedEntries) = 4
    /\ ~cacheDir
    /\ \A path \in DOMAIN cache : ~cache[path].exists

(***************************************************************************)
(* The paths of the Download and of the Extract stage, under Spec.         *)
(***************************************************************************)
\* C14: for every archive entry of the manifest and every particle, the path
\* the Extract stage opens (the entry's file name with the trailing
\* '?download=1' stripped, under download cache / particle) is the local path
\* the Download stage writes for that entry (the name of the URL's path
\* component, under the same directory): whenever both stages have handled an
\* entry, extract() opened the path download() wrote.
C14_ExtractOpensWhatDownloadWrote ==
    /\ \A p \in args.particles : \A i \in 1..Len(compressed_files(p)) :
          ExtractName(compressed_files(p)[i]) = LocalName(compressed_files(p)[i])
    /\ \A d \in fetched : \A o \in opened : d[1] = o[1] => o[2] = d[2]
    /\ \A o \in opened : o[1] \in {d[1] : d \in fetched} => o \in fetched

\* the four archives of the three particles were downloaded, and each was opened
\* by extract()
C14_Witness ==
    /\ Cardinality(fetched) = 4
    /\ Cardinality(opened) = 4
    /\ \A o \in opened : \E d \in fetched : d[1] = o[1]
    /\ InRan("Download") /\ InRan("Extract")
    /\ pc \notin {"download", "extract", "aborted"}

====
